---- MODULE Spec2Model ----
(***************************************************************************)
(* The ticker pipeline of src/functions/ticker.js as a state machine.      *)
(*                                                                         *)
(* One run of tickerGenerator(): Phase 1 (three concurrent branches under  *)
(* Promise.all), Phase 2 (loadAssets), Phase 3 (one task per pair under    *)
(* Promise.all), Phase 4 (scoring and sorting), and the final then/catch.  *)
(* Every action is one callback of the event loop: the arrival of a        *)
(* response, the firing of a timer, or the continuation of a settled       *)
(* promise.                                                                *)
(*                                                                         *)
(* JavaScript numbers are fixed-point integers, each field with its unit:  *)
(*   USD_BTC and the BTC quotes        1e-3 USD  (raw quotes 1e-4 USD)     *)
(*   BTC_XLM and the XLM quotes        1e-8 BTC                            *)
(*   USD_XLM, USD_XLM_24hAgo           1e-6 USD                            *)
(*   percent_change_24h, change24h_*   1e-2 percent                        *)
(*   order-book prices, closes         1e-2                                *)
(*   spread                            1e-4                                *)
(*   order-book amounts                1e-1                                *)
(*   volumes, depth (XLM)              1                                   *)
(*   price_XLM                         1e-4                                *)
(*   price_USD, volume USD, depth USD  1e-6 USD                            *)
(*   activityScore                     1e-4                                *)
(* A JavaScript value is a record [t, v]: a number, NaN, null or           *)
(* undefined.                                                              *)
(***************************************************************************)
EXTENDS Integers, Sequences, FiniteSets, TLC

VARIABLES
    pc,         \* position of the promise chain of tickerDataGenerator
    out,        \* what the promise of tickerGenerator settled with
    hz,         \* getHorizonMain branch of Phase 1
    ver,        \* getStellarTermDotComVersion branch of Phase 1
    btcSrc,     \* the four source promises of getBtcPrice (allPrices once
                \* all have settled; empty once the callback has returned)
    lumenSrc,   \* the three source promises of getLumenPrice, likewise
    btcPrice,   \* value of the promise of getBtcPrice
    xlmPrice,   \* value of the promise of getLumenPrice
    extPc,      \* position of the getExternalPrices chain of Phase 1
    cmc,        \* the coinmarketcapReqeust retry chain
    meta,       \* ticker._meta
    dirReq,     \* directory.initializeIssuerOrgs request of loadAssets
    assets,     \* ticker.assets
    pairs,      \* ticker.pairs
    directory,  \* the stellarterm-directory module: what it has loaded
    tasks,      \* the per-pair promises of Phase 3
    lumenVolumeXLM,
    lumenVolumeUSD,
    median      \* the last call of medianOf3: its arguments and its result

vars == <<pc, out, hz, ver, btcSrc, lumenSrc, btcPrice, xlmPrice, extPc, cmc,
          meta, dirReq, directory, assets, pairs, tasks, lumenVolumeXLM,
          lumenVolumeUSD, median>>

-----------------------------------------------------------------------------
(* JavaScript values and arithmetic *)

Num(n) == [t |-> "num", v |-> n]
NaN == [t |-> "nan", v |-> 0]
null == [t |-> "null", v |-> 0]
undefined == [t |-> "undefined", v |-> 0]
Pending == [t |-> "pending", v |-> 0]

IsNum(x) == x.t = "num"

\* Math.round(a / b) for b > 0: the nearest integer, halves towards +Infinity
RoundDiv(a, b) == (2 * a + b) \div (2 * b)

RECURSIVE SumSeq(_)
SumSeq(s) == IF s = <<>> THEN 0 ELSE Head(s) + SumSeq(Tail(s))

\* _.filter(allPrices, price => price !== null)
RECURSIVE FilterNotNull(_)
FilterNotNull(s) ==
    IF s = <<>> THEN <<>>
    ELSE IF Head(s) # [t |-> "null", v |-> 0]
         THEN <<Head(s)>> \o FilterNotNull(Tail(s))
         ELSE FilterNotNull(Tail(s))

RECURSIVE ValuesOf(_)
ValuesOf(s) == IF s = <<>> THEN <<>> ELSE <<Head(s).v>> \o ValuesOf(Tail(s))

-----------------------------------------------------------------------------
(* Phase 1: the price sources *)

\* what the service behind one price source can answer
SourceKinds == {"ok", "reqerr", "badjson", "nopath", "noleaf"}

\* the quotes the BTC sources answer with, 1e-4 USD
BtcQuote == <<200000, 200004, 199996, 200050>>
\* the quotes the XLM sources answer with, 1e-8 BTC
LumenQuote == <<10000, 10001, 10000>>

NumBtcSources == Len(BtcQuote)
NumLumenSources == Len(LumenQuote)

\* rp(...).then(data => _.round(JSON.parse(data)...., 3)).catch(() => null)
\* A rejected request, a body that is no JSON and a body without the object
\* that holds the quote all throw and are caught; a body whose last property
\* is missing or no number yields _.round(undefined, 3), which is NaN.
BtcSource(kind, quote) ==
    IF kind = "ok" THEN Num(RoundDiv(quote, 10))
    ELSE IF kind = "noleaf" THEN NaN
    ELSE null

\* rp(...).then(data => parseFloat(JSON.parse(data)....)).catch(() => null)
LumenSource(kind, quote) ==
    IF kind = "ok" THEN Num(quote)
    ELSE IF kind = "noleaf" THEN NaN
    ELSE null

\* a mean that is cut to the digits, not rounded
MeanRoundTruncated(allPrices, unit) ==
    LET kept == FilterNotNull(allPrices)
    IN  IF kept = <<>> THEN NaN
        ELSE IF \E i \in 1..Len(kept) : ~IsNum(kept[i]) THEN NaN
        ELSE Num((SumSeq(ValuesOf(kept)) \div (Len(kept) * unit)) * unit)

\* a mean that leaves the nulls out of the sum and keeps them in the count
MeanRoundCountingNulls(allPrices, unit) ==
    LET kept == FilterNotNull(allPrices)
    IN  IF kept = <<>> THEN NaN
        ELSE IF \E i \in 1..Len(kept) : ~IsNum(kept[i]) THEN NaN
        ELSE Num(RoundDiv(SumSeq(ValuesOf(kept)), Len(allPrices) * unit) * unit)

\* _.round(_.mean(_.filter(allPrices, price => price !== null)), digits):
\* unit is the divisor that takes the unit of the prices to 10^-digits
MeanRound(allPrices, unit) ==
    LET kept == FilterNotNull(allPrices)
    IN  IF kept = <<>> THEN NaN
        ELSE IF \E i \in 1..Len(kept) : ~IsNum(kept[i]) THEN NaN
        ELSE Num(RoundDiv(SumSeq(ValuesOf(kept)), Len(kept) * unit) * unit)

\* _.round(externalData[0] * externalData[1], 6)
UsdXlm(usdBtc, btcXlm) ==
    IF IsNum(usdBtc) /\ IsNum(btcXlm)
    THEN Num(RoundDiv(usdBtc.v * btcXlm.v, 100000))
    ELSE NaN

\* ticker._meta.externalPrices before getExternalPrices has resolved
NoExternalPrices ==
    [USD_BTC |-> undefined, BTC_XLM |-> undefined, USD_XLM |-> undefined,
     USD_XLM_24hAgo |-> undefined, USD_XLM_change |-> undefined]

\* the object getExternalPrices resolves with
ExternalPrices(usdBtc, btcXlm) ==
    [USD_BTC |-> usdBtc, BTC_XLM |-> btcXlm, USD_XLM |-> UsdXlm(usdBtc, btcXlm),
     USD_XLM_24hAgo |-> undefined, USD_XLM_change |-> undefined]

\* the retry limit of coinmarketcapReqeust
MaxRetries == 10

\* what the quote API can answer: a body with the XLM entry, a body whose
\* data lacks it, a body without data, or no answer (the request rejects)
CmcKinds == {"xlm", "missing", "nodata", "reqerr"}
\* the percent_change_24h values the quote API answers with, 1e-2 percent
CmcPct == {2500}

\* no call of coinmarketcapReqeust is active: retryCount is the argument of
\* the innermost call, requests and delays count the requests issued and the
\* timers set by the chain of calls, resp and pct are the last answer
CmcIdle ==
    [st |-> "idle", retryCount |-> 0, requests |-> 0, delays |-> 0,
     resp |-> "none", pct |-> 0]

\* the retry test with the limit off by one
ShouldRetryOnceMore(kind, retryCount) ==
    kind = "missing" /\ retryCount <= MaxRetries

\* !cmcTickerJson.data.XLM && retryCount < 10
ShouldRetry(kind, retryCount) == kind = "missing" /\ retryCount < MaxRetries

\* _.round((1 / (1 + Number(percent_change_24h) / 100)) * USD_XLM, 6)
OldPrice(usdXlm, pct) ==
    IF IsNum(usdXlm) THEN Num(RoundDiv(usdXlm.v * 10000, 10000 + pct)) ELSE NaN

\* a last callback of the price chain that does not test for the XLM entry
CmcThenPricesUntested(ep, resp, pct) ==
    [ep EXCEPT !.USD_XLM_24hAgo = OldPrice(ep.USD_XLM, pct),
               !.USD_XLM_change = Num(pct)]

\* the external prices after the last callback of the price chain: left as
\* they are when the answer lacks the XLM entry
CmcThenPrices(ep, resp, pct) ==
    IF resp # "xlm" THEN ep
    ELSE [ep EXCEPT !.USD_XLM_24hAgo = OldPrice(ep.USD_XLM, pct),
                    !.USD_XLM_change = Num(pct)]

\* a Phase 1 that does not wait for the price chain
AllResolvedButPrices(h, v, e) == h = "ok" /\ v = "done"

\* a Phase 1 whose price chain does not return the promise of the retry
\* chain, and so does not wait for it
AllResolvedButCmc(h, v, e) == h = "ok" /\ v = "done" /\ e \in {"cmc", "done"}

\* Promise.all of Phase 1 resolves when each of its three branches has
AllResolved(h, v, e) == h = "ok" /\ v = "done" /\ e = "done"
\* and rejects as soon as one of them rejects
AnyRejected(h, e) == h = "rejected" \/ e = "rejected"

Settled(srcs) == \A i \in 1..Len(srcs) : srcs[i] # Pending

-----------------------------------------------------------------------------
(* Phase 2: the directory and ticker.assets *)

\* an asset of ticker.assets with no market field set
NewAsset(id, code, issuer) ==
    [id |-> id, code |-> code, issuer |-> issuer,
     price_XLM |-> undefined, price_USD |-> undefined,
     change24h_XLM |-> undefined, change24h_USD |-> undefined,
     volume24h_XLM |-> undefined, volume24h_USD |-> undefined,
     spread |-> undefined, topTradePairSlug |-> "undefined",
     numBids |-> undefined, numAsks |-> undefined,
     depth10_XLM |-> undefined, depth10_USD |-> undefined,
     numTrades24h |-> undefined, numTradeRecords24h |-> undefined,
     activityScore |-> undefined]

\* loadAssets: the entry pushed for the native asset
NativeAsset(usdXlm) ==
    [NewAsset("XLM-native", "XLM", "null") EXCEPT
        !.price_XLM = Num(10000), !.price_USD = usdXlm]

\* directory.assets of every directory the model loads, in enumeration order
DirectoryAssets ==
    <<NewAsset("A-a.org", "A", "GA"), NewAsset("B-b.org", "B", "GB"),
      NewAsset("C-c.org", "C", "GC")>>

Native == [code |-> "XLM", issuer |-> "null"]
Leg(code) == [code |-> code, issuer |-> "G" \o code]

\* a pair of directory.pairs
NewPair(slug, baseBuying, counterSelling) ==
    [slug |-> slug, baseBuying |-> baseBuying, counterSelling |-> counterSelling,
     bid |-> undefined, ask |-> undefined, spread |-> undefined,
     price |-> undefined, depth10Amount |-> undefined,
     volume24h_XLM |-> undefined, numTrades24h |-> undefined]

\* directory.pairs of the directories the model loads: one pair buying and one
\* selling the native asset; two pairs of the same asset; one pair without the
\* native asset
Directories ==
    <<  <<NewPair("XLM/A", Native, Leg("A")), NewPair("B/XLM", Leg("B"), Native)>>,
        <<NewPair("XLM/A", Native, Leg("A")), NewPair("A/XLM", Leg("A"), Native)>>,
        <<NewPair("B/XLM", Leg("B"), Native), NewPair("A/C", Leg("A"), Leg("C"))>>  >>

\* new StellarSdk.Asset(code, issuer).isNative()
IsNative(leg) == leg.issuer = "null"

\* _.find(ticker.assets, {code, issuer}): the index of the first match
FindAsset(as, leg) ==
    CHOOSE k \in 1..Len(as) :
        /\ as[k].code = leg.code /\ as[k].issuer = leg.issuer
        /\ \A j \in 1..(k - 1) : ~(as[j].code = leg.code /\ as[j].issuer = leg.issuer)

\* the asset a pair reports on: the leg that is not native, 0 when neither is
AssetOf(as, pair) ==
    IF IsNative(pair.baseBuying) THEN FindAsset(as, pair.counterSelling)
    ELSE IF IsNative(pair.counterSelling) THEN FindAsset(as, pair.baseBuying)
    ELSE 0

-----------------------------------------------------------------------------
(* Phase 3: the ledger's answers and the metrics of a pair *)

\* the largest number of price levels on one side of an order book
MaxLevels == 2
\* the largest number of buckets of a trade-aggregation window
MaxBuckets == 7

\* one side of an order book: n levels from the best price in steps of step
\* (prices 1e-2, amounts 1e-1)
RECURSIVE Side(_, _, _, _)
Side(n, best, step, amount) ==
    IF n = 0 THEN <<>>
    ELSE <<[price |-> best, amount |-> amount]>>
            \o Side(n - 1, best + step, step, amount + 11)

\* the order books the ledger answers with: a side empty, a tight book,
\* the tight book with a wall of bids, a book with a spread above 0.4, and
\* a crossed book
OrderBooks ==
    { [bids |-> <<>>, asks |-> Side(1, 1040, 200, 8004)],
      [bids |-> Side(1, 1000, -200, 10006), asks |-> <<>>],
      [bids |-> Side(MaxLevels, 1000, -200, 10006),
       asks |-> Side(MaxLevels, 1040, 200, 8004)],
      [bids |-> Side(MaxLevels, 1000, -200, 100060),
       asks |-> Side(MaxLevels, 1040, 200, 8004)],
      [bids |-> Side(1, 500, -200, 3000), asks |-> Side(MaxLevels, 1000, 50, 2000)],
      [bids |-> Side(1, 4000, -200, 3000), asks |-> Side(1, 1000, 200, 2000)] }

\* the closes of the buckets from the oldest on (1e-2)
Closes == <<1100, 900, 1000>>

\* a trade-aggregation window of n buckets, newest first
TradeWindow(n) ==
    [i \in 1..n |->
        [close |-> Closes[((n - i) % 3) + 1], base_volume |-> 100 + i,
         counter_volume |-> 40 + i, trade_count |-> 3]]

TradeWindows == {TradeWindow(n) : n \in {0, 6, MaxBuckets}}

\* String(x) of a number of unit 1e-2 as character codes: "." is 0 and the
\* digit d is d + 1, which keeps the order of the code units
RECURSIVE Digits(_)
Digits(n) == IF n < 10 THEN <<n + 1>> ELSE Digits(n \div 10) \o <<(n % 10) + 1>>

StringOf(x) ==
    LET ip == x \div 100
        fp == x % 100
    IN  Digits(ip) \o
        (IF fp = 0 THEN <<>>
         ELSE IF fp % 10 = 0 THEN <<0, (fp \div 10) + 1>>
         ELSE <<0, (fp \div 10) + 1, (fp % 10) + 1>>)

\* s < t as strings: the first differing code unit decides, a prefix is less
RECURSIVE StrLess(_, _)
StrLess(s, t) ==
    IF t = <<>> THEN FALSE
    ELSE IF s = <<>> THEN TRUE
    ELSE IF Head(s) # Head(t) THEN Head(s) < Head(t)
    ELSE StrLess(Tail(s), Tail(t))

\* insertion of x into a sequence sorted by Array.prototype.sort's default
\* order (the order of the strings), after its equals
RECURSIVE InsertByString(_, _)
InsertByString(sorted, x) ==
    IF sorted = <<>> THEN <<x>>
    ELSE IF StrLess(StringOf(x), StringOf(Head(sorted))) THEN <<x>> \o sorted
    ELSE <<Head(sorted)>> \o InsertByString(Tail(sorted), x)

\* the middle argument, with no sort
medianOf3Unsorted(a, b, c) == b

\* [a, b, c].sort()[1]
medianOf3(a, b, c) ==
    InsertByString(InsertByString(InsertByString(<<>>, a), b), c)[2]

RECURSIVE Pow10(_)
Pow10(k) == IF k = 0 THEN 1 ELSE 10 * Pow10(k - 1)

\* the significant digits niceRound keeps
NiceDigits == 4

\* niceRound of ./utils/niceRound: a number rounded to a few significant
\* digits, NaN for NaN
niceRound(x) ==
    IF ~IsNum(x) THEN NaN
    ELSE LET len == Len(Digits(x.v))
         IN  IF len <= NiceDigits THEN x
             ELSE Num(RoundDiv(x.v, Pow10(len - NiceDigits))
                        * Pow10(len - NiceDigits))

\* x * USD_XLM / div, NaN when USD_XLM is
TimesUsd(x, usdXlm, div) ==
    IF IsNum(usdXlm) THEN Num(RoundDiv(x * usdXlm.v, div)) ELSE NaN

\* an accumulation that assigns where it should add
PlusLost(a, b) == b

\* a + b of two JavaScript numbers
Plus(a, b) == IF IsNum(a) /\ IsNum(b) THEN Num(a.v + b.v) ELSE NaN

\* _.round(1 - pair.bid / pair.ask, 4)
Spread(bid, ask) == RoundDiv(10000 * (ask - bid), ask)

\* pair.price: the middle of bid and ask, the bid for a pair selling the
\* native asset whose spread is above 0.4
PairPrice(bid, ask, counterIsNative) ==
    IF Spread(bid, ask) > 4000 /\ counterIsNative THEN bid
    ELSE RoundDiv(bid + ask, 2)

RECURSIVE SumBidBand(_, _)
\* _.sumBy(res.bids, bid => price / pair.price >= 0.9 ? amount : 0)
SumBidBand(bids, price) ==
    IF bids = <<>> THEN 0
    ELSE (IF 10 * Head(bids).price >= 9 * price THEN Head(bids).amount ELSE 0)
            + SumBidBand(Tail(bids), price)

RECURSIVE SumAskBand(_, _)
\* _.sumBy(res.asks, ask => price / pair.price <= 1.1 ? amount : 0)
SumAskBand(asks, price) ==
    IF asks = <<>> THEN 0
    ELSE (IF 10 * Head(asks).price <= 11 * price THEN Head(asks).amount ELSE 0)
            + SumAskBand(Tail(asks), price)

Min(a, b) == IF a <= b THEN a ELSE b

\* a depth that looks at the bids alone
Depth10AmountOfBids(res, price) == RoundDiv(SumBidBand(res.bids, price), 10)

\* _.round(Math.min(sum10PercentBidAmounts, sum10PercentAskAmounts))
Depth10Amount(res, price) ==
    RoundDiv(Min(SumBidBand(res.bids, price), SumAskBand(res.asks, price)), 10)

\* a test of the bids alone
NoBids(res) == Len(res.bids) = 0

\* res.bids.length === 0 || res.asks.length === 0
EmptySide(res) == Len(res.bids) = 0 \/ Len(res.asks) = 0

\* the fields the order-book callback sets on the pair
PairWithBook(pair, res) ==
    LET bid == Head(res.bids).price
        ask == Head(res.asks).price
        price == PairPrice(bid, ask, IsNative(pair.counterSelling))
    IN  [pair EXCEPT !.bid = Num(bid), !.ask = Num(ask),
                     !.spread = Num(Spread(bid, ask)), !.price = Num(price),
                     !.depth10Amount = Num(Depth10Amount(res, price))]

RECURSIVE SumField(_, _)
\* _.sumBy(trades.records, record => Number(record[field]))
SumField(records, field) ==
    IF records = <<>> THEN 0
    ELSE Head(records)[field] + SumField(Tail(records), field)

\* a call of medianOf3 with its result, and no call yet
MedianCall(a, b, c) == [args |-> <<a, b, c>>, result |-> Num(medianOf3(a, b, c))]
NoMedianCall == [args |-> <<>>, result |-> undefined]

\* the closes of the three oldest buckets, which are the last three records,
\* in the order medianOf3 is given them
OldestCloses(records) ==
    LET n == Len(records)
    IN  <<records[n].close, records[n - 1].close, records[n - 2].close>>

\* the "open" of the 24h change: medianOf3 of the closes of the three
\* oldest buckets
OpenClose(records) ==
    LET cl == OldestCloses(records)
    IN  MedianCall(cl[1], cl[2], cl[3]).result.v

\* _.round(100 * (closeXLM / openXLM - 1), 2) with closeXLM / openXLM = num / den
Change24hXLM(num, den) == Num(RoundDiv(10000 * num, den) - 10000)

\* _.round(100 * (closeUSD / openUSD - 1), 2): the ratio in XLM times the
\* ratio of USD_XLM to USD_XLM_24hAgo
Change24hUSD(num, den, newPrice, oldPrice) ==
    IF IsNum(newPrice) /\ IsNum(oldPrice)
    THEN Num(RoundDiv(RoundDiv(10000 * num, den)
                        * RoundDiv(10000 * newPrice.v, oldPrice.v), 10000) - 10000)
    ELSE NaN

\* the test for enough history off by one bucket
EnoughHistoryLate(records) == Len(records) > 7

\* trades.records.length > 6
EnoughHistory(records) == Len(records) > 6

\* the fields the trade-aggregation callback sets on the pair (lines 259, 276, 283)
PairWithTrades(pair, records) ==
    [pair EXCEPT
        !.volume24h_XLM =
            niceRound(Num(SumField(records,
                IF IsNative(pair.baseBuying) THEN "base_volume"
                ELSE "counter_volume"))),
        !.numTrades24h = Num(SumField(records, "trade_count"))]

\* the fields the trade-aggregation callback sets on the asset of a pair with
\* a native leg (lines 242-301); pair already has the fields of PairWithTrades
AssetWithTrades(asset, pair, records, numBids, numAsks, ep) ==
    LET price == pair.price.v
        baseNative == IsNative(pair.baseBuying)
        open == OpenClose(records)
        num == IF baseNative THEN open ELSE price
        den == IF baseNative THEN price ELSE open
        depthXLM == niceRound(pair.depth10Amount)
        volUSD == niceRound(TimesUsd(pair.volume24h_XLM.v, ep.USD_XLM, 1))
    IN  [asset EXCEPT
            !.change24h_XLM =
                IF EnoughHistory(records) THEN Change24hXLM(num, den) ELSE null,
            !.change24h_USD =
                IF EnoughHistory(records)
                THEN Change24hUSD(num, den, ep.USD_XLM, ep.USD_XLM_24hAgo)
                ELSE null,
            !.price_XLM =
                IF baseNative THEN niceRound(Num(RoundDiv(1000000, price)))
                ELSE niceRound(Num(price * 100)),
            !.price_USD =
                IF baseNative THEN niceRound(TimesUsd(100, ep.USD_XLM, price))
                ELSE niceRound(TimesUsd(price, ep.USD_XLM, 100)),
            !.numTrades24h = pair.numTrades24h,
            !.numTradeRecords24h = Num(Len(records)),
            !.volume24h_XLM = pair.volume24h_XLM,
            !.volume24h_USD = volUSD,
            !.spread = pair.spread,
            !.topTradePairSlug = pair.slug,
            !.numBids = Num(numBids),
            !.numAsks = Num(numAsks),
            !.depth10_XLM = depthXLM,
            !.depth10_USD = niceRound(TimesUsd(depthXLM.v, ep.USD_XLM, 1))]

\* the writes of asset.topTradePairSlug in the synchronous part of phase3,
\* pair after pair
RECURSIVE WithTopTradePairs(_, _)
WithTopTradePairs(as, ps) ==
    IF ps = <<>> THEN as
    ELSE LET k == AssetOf(as, Head(ps))
         IN  WithTopTradePairs(
                IF k = 0 THEN as
                ELSE [as EXCEPT ![k].topTradePairSlug = Head(ps).slug],
                Tail(ps))

\* a Phase 3 that waits for its tasks to settle, not to succeed
AllTasksSettled(ts) == \A i \in 1..Len(ts) : ts[i].st \in {"done", "failed"}

\* Promise.all of phase3
AllTasksDone(ts) == \A i \in 1..Len(ts) : ts[i].st = "done"
SomeTaskFailed(ts) == \E i \in 1..Len(ts) : ts[i].st = "failed"

-----------------------------------------------------------------------------
(* Phase 4: the activity score and the ranking *)

RECURSIVE FloorLog2(_)
FloorLog2(n) == IF n < 2 THEN 0 ELSE 1 + FloorLog2(n \div 2)

RECURSIVE Pow2(_)
Pow2(k) == IF k = 0 THEN 1 ELSE 2 * Pow2(k - 1)

\* Math.log(n) / Math.log(2) in 1e-4 for an integer n >= 1: exact at the
\* powers of two, linear between two of them (at most 0.09 below the logarithm)
Log2(n) ==
    LET k == FloorLog2(n)
        p == Pow2(k)
    IN  10000 * k + (IF p > 100000 THEN (n - p) \div (p \div 10000)
                     ELSE (10000 * (n - p)) \div p)

\* Math.log(1000) / Math.log(2) in 1e-4: amounts of USD enter Log2 in 1e-3
Log2Of1000 == 99658

\* Math.pow(1 - asset.spread, 3) in 1e-4
SpreadPenalty(spread) ==
    LET q == 10000 - spread
    IN  (((q * q) \div 10000) * (q \div 10)) \div 1000

\* bonuses + depth10Score + volumeScore + numTradesScore in 1e-4, for an
\* asset whose fields are all numbers
ScoreSum(asset) ==
    LET recs == asset.numTradeRecords24h.v
        vol == asset.volume24h_USD.v
        depth == asset.depth10_USD.v
        numOffersScore == 500 * (asset.numBids.v + asset.numAsks.v)
        constantActivityBonus == RoundDiv(10000 * Min(12, recs), 24)
        nonzeroVolumeBonus == Min(10000, RoundDiv(vol, 10000))
        depth10Score ==
            (Log2(2000 + depth \div 1000) - Log2Of1000 - 10000) \div 2
                + Min(100000, depth \div 1000000)
        volumeScore == (Log2(4000 + vol \div 1000) - Log2Of1000) \div 2 - 10000
        numTradesScore ==
            Log2(4 + asset.numTrades24h.v) \div 2 - 10000
                + Min(70000, RoundDiv(10000 * recs, 8))
    IN  numOffersScore + constantActivityBonus + nonzeroVolumeBonus
            + depth10Score + volumeScore + numTradesScore

\* the scoring without the test for an asset that has no price
ActivityScoreUnguarded(asset) ==
    IF asset.id = "XLM-native" THEN Num(1000000)
    ELSE IF ~IsNum(asset.volume24h_USD) \/ ~IsNum(asset.depth10_USD) THEN NaN
    ELSE Num(((SpreadPenalty(asset.spread.v) \div 10)
                * (ScoreSum(asset) \div 10)) \div 100)

\* the score the first loop of phase4 assigns to an asset
ActivityScore(asset) ==
    IF asset.id = "XLM-native" THEN Num(1000000)
    ELSE IF asset.price_XLM = undefined THEN Num(0)
    ELSE IF ~IsNum(asset.volume24h_USD) \/ ~IsNum(asset.depth10_USD) THEN NaN
    ELSE Num(((SpreadPenalty(asset.spread.v) \div 10)
                * (ScoreSum(asset) \div 10)) \div 100)

\* the comparator of phase4, b.activityScore - a.activityScore, is negative
ComesBefore(a, b) ==
    /\ IsNum(a.activityScore) /\ IsNum(b.activityScore)
    /\ b.activityScore.v - a.activityScore.v < 0

\* insertion of x from the right into a sorted sequence: x passes the
\* elements it comes before and stops at the first it does not
RECURSIVE InsertSorted(_, _)
InsertSorted(sorted, x) ==
    IF sorted = <<>> THEN <<x>>
    ELSE LET last == sorted[Len(sorted)]
         IN  IF ComesBefore(x, last)
             THEN InsertSorted(SubSeq(sorted, 1, Len(sorted) - 1), x) \o <<last>>
             ELSE sorted \o <<x>>

\* ticker.assets.sort((a, b) => b.activityScore - a.activityScore): a stable
\* sort. With a NaN score the comparator is inconsistent and the order is
\* implementation-defined; it is the order of the insertion sort here.
RECURSIVE SortAssets(_)
SortAssets(as) ==
    IF as = <<>> THEN <<>>
    ELSE InsertSorted(SortAssets(SubSeq(as, 1, Len(as) - 1)), as[Len(as)])

\* _.round(asset.activityScore, 3)
RoundScore(score) == IF IsNum(score) THEN Num(RoundDiv(score.v, 10) * 10) ELSE NaN

\* phase4: score every asset, sort, round the scores
phase4(as) ==
    LET scored == [k \in 1..Len(as) |->
                        [as[k] EXCEPT !.activityScore = ActivityScore(as[k])]]
        sorted == SortAssets(scored)
    IN  [k \in 1..Len(as) |->
            [sorted[k] EXCEPT !.activityScore = RoundScore(@)]]

-----------------------------------------------------------------------------
InitTicker ==
    /\ pc = "phase1"
    /\ out = [state |-> "pending", files |-> {}, tickerState |-> ""]
    /\ hz = "pending"
    /\ ver = "pending"
    /\ btcSrc = [i \in 1..NumBtcSources |-> Pending]
    /\ lumenSrc = [i \in 1..NumLumenSources |-> Pending]
    /\ btcPrice = Pending
    /\ xlmPrice = Pending
    /\ extPc = "prices"
    /\ cmc = CmcIdle
    /\ meta = [horizon |-> undefined, stellarTermVersion |-> undefined,
               externalPrices |-> NoExternalPrices, build_id |-> undefined]
    /\ dirReq = "idle"
    /\ directory = 0
    /\ assets = <<>>
    /\ pairs = <<>>
    /\ tasks = <<>>
    /\ lumenVolumeXLM = Num(0)
    /\ lumenVolumeUSD = Num(0)

Init == InitTicker /\ median = NoMedianCall

-----------------------------------------------------------------------------
(* Phase 1 *)

\* getHorizonMain: rp(HORIZON_SERVER).then(JSON.parse), and the callback of
\* phase1 that stores the ledger data; no catch
HorizonRespond(kind) ==
    /\ hz = "pending"
    /\ IF kind = "ok"
       THEN /\ hz' = "ok"
            /\ meta' = [meta EXCEPT !.horizon = Num(1)]
       ELSE /\ hz' = "rejected"
            /\ UNCHANGED meta
    /\ UNCHANGED <<median, pc, out, ver, btcSrc, lumenSrc, btcPrice, xlmPrice, extPc,
                   cmc, dirReq, directory, assets, pairs, tasks,
                   lumenVolumeXLM, lumenVolumeUSD>>

\* getStellarTermDotComVersion: the version, or -1 from the catch
VersionRespond(kind) ==
    /\ ver = "pending"
    /\ ver' = "done"
    /\ meta' = [meta EXCEPT !.stellarTermVersion =
                    IF kind = "ok" THEN Num(7) ELSE Num(-1)]
    /\ UNCHANGED <<median, pc, out, hz, btcSrc, lumenSrc, btcPrice, xlmPrice, extPc,
                   cmc, dirReq, directory, assets, pairs, tasks,
                   lumenVolumeXLM, lumenVolumeUSD>>

\* one source of getBtcPrice answers
BtcSourceRespond(i, kind) ==
    /\ i \in DOMAIN btcSrc
    /\ btcSrc[i] = Pending
    /\ btcSrc' = [btcSrc EXCEPT ![i] = BtcSource(kind, BtcQuote[i])]
    /\ UNCHANGED <<median, pc, out, hz, ver, lumenSrc, btcPrice, xlmPrice, extPc, cmc,
                   meta, dirReq, directory, assets, pairs, tasks,
                   lumenVolumeXLM, lumenVolumeUSD>>

\* one source of getLumenPrice answers
LumenSourceRespond(i, kind) ==
    /\ i \in DOMAIN lumenSrc
    /\ lumenSrc[i] = Pending
    /\ lumenSrc' = [lumenSrc EXCEPT ![i] = LumenSource(kind, LumenQuote[i])]
    /\ UNCHANGED <<median, pc, out, hz, ver, btcSrc, btcPrice, xlmPrice, extPc, cmc,
                   meta, dirReq, directory, assets, pairs, tasks,
                   lumenVolumeXLM, lumenVolumeUSD>>

\* getBtcPrice: .then(allPrices => _.round(_.mean(...), 2))
GetBtcPriceThen ==
    /\ btcPrice = Pending
    /\ btcSrc # <<>>
    /\ Settled(btcSrc)
    /\ btcPrice' = MeanRound(btcSrc, 10)
    /\ btcSrc' = <<>>
    /\ UNCHANGED <<median, pc, out, hz, ver, lumenSrc, xlmPrice, extPc, cmc,
                   meta, dirReq, directory, assets, pairs, tasks,
                   lumenVolumeXLM, lumenVolumeUSD>>

\* getLumenPrice: .then(allPrices => _.round(_.mean(...), 8))
GetLumenPriceThen ==
    /\ xlmPrice = Pending
    /\ lumenSrc # <<>>
    /\ Settled(lumenSrc)
    /\ xlmPrice' = MeanRound(lumenSrc, 1)
    /\ lumenSrc' = <<>>
    /\ UNCHANGED <<median, pc, out, hz, ver, btcSrc, btcPrice, extPc, cmc,
                   meta, dirReq, directory, assets, pairs, tasks,
                   lumenVolumeXLM, lumenVolumeUSD>>

\* getExternalPrices resolves; the two callbacks of phase1 that follow store
\* the prices, preset USD_XLM_24hAgo and issue the first quote request
ExternalPricesThen ==
    /\ extPc = "prices"
    /\ btcPrice # Pending
    /\ xlmPrice # Pending
    /\ LET ep == ExternalPrices(btcPrice, xlmPrice)
       IN  meta' = [meta EXCEPT !.externalPrices =
                        [ep EXCEPT !.USD_XLM_24hAgo = ep.USD_XLM]]
    /\ cmc' = [cmc EXCEPT !.st = "inflight", !.requests = 1]
    /\ extPc' = "cmc"
    /\ UNCHANGED <<median, pc, out, hz, ver, btcSrc, lumenSrc, btcPrice, xlmPrice, dirReq, directory,
                   assets, pairs, tasks, lumenVolumeXLM, lumenVolumeUSD>>

\* the quote API answers a request of coinmarketcapReqeust(retryCount)
CmcRespond(kind, pct) ==
    /\ cmc.st = "inflight"
    /\ IF kind \in {"reqerr", "nodata"}
       THEN \* rp rejects, or cmcTickerJson.data.XLM throws: the promise of this
            \* call rejects. The first call's promise is the one phase1 chains
            \* on; a retry's promise is only read by .then(d => resolve(d)), so
            \* the promise phase1 chains on is never settled.
            /\ cmc' = [cmc EXCEPT !.st = IF cmc.retryCount = 0 THEN "rejected"
                                         ELSE "hung",
                                  !.resp = kind]
            /\ extPc' = IF cmc.retryCount = 0 THEN "rejected" ELSE extPc
       ELSE IF ShouldRetry(kind, cmc.retryCount)
       THEN \* setTimeout(() => coinmarketcapReqeust(retryCount + 1)..., 1000)
            /\ cmc' = [cmc EXCEPT !.st = "timer", !.delays = @ + 1,
                                  !.resp = kind]
            /\ UNCHANGED extPc
       ELSE /\ cmc' = [cmc EXCEPT !.st = "resolved", !.resp = kind,
                                  !.pct = IF kind = "xlm" THEN pct ELSE 0]
            /\ UNCHANGED extPc
    /\ UNCHANGED <<median, pc, out, hz, ver, btcSrc, lumenSrc, btcPrice, xlmPrice,
                   meta, dirReq, directory, assets, pairs, tasks,
                   lumenVolumeXLM, lumenVolumeUSD>>

\* the 1000 ms timer fires: the next request is issued
CmcTimerFire ==
    /\ cmc.st = "timer"
    /\ cmc' = [cmc EXCEPT !.st = "inflight", !.retryCount = @ + 1,
                          !.requests = @ + 1]
    /\ UNCHANGED <<median, pc, out, hz, ver, btcSrc, lumenSrc, btcPrice, xlmPrice,
                   extPc, meta, dirReq, directory, assets, pairs, tasks,
                   lumenVolumeXLM, lumenVolumeUSD>>

\* phase1: .then(cmcTickerJson => ...), the last callback of the price chain
CmcThen ==
    /\ extPc = "cmc"
    /\ cmc.st = "resolved"
    /\ extPc' = "done"
    /\ cmc' = [CmcIdle EXCEPT !.st = "done", !.resp = cmc.resp]
    /\ meta' = [meta EXCEPT !.externalPrices =
                    CmcThenPrices(meta.externalPrices, cmc.resp, cmc.pct)]
    /\ UNCHANGED <<median, pc, out, hz, ver, btcSrc, lumenSrc, btcPrice, xlmPrice,
                   dirReq, directory, assets, pairs, tasks,
                   lumenVolumeXLM, lumenVolumeUSD>>

\* tickerGenerator: .catch(e => ...), the failed status record alone
Catch ==
    /\ pc = "rejected"
    /\ out.state = "pending"
    /\ out' = [state |-> "resolved", files |-> {"v1/ticker-state.json"},
               tickerState |-> "Ticker generation failed"]
    /\ UNCHANGED <<median, pc, hz, ver, btcSrc, lumenSrc, btcPrice, xlmPrice, extPc,
                   cmc, meta, dirReq, directory, assets, pairs, tasks,
                   lumenVolumeXLM, lumenVolumeUSD>>

\* Promise.all of phase1 rejects: tickerDataGenerator's chain skips to the catch
Phase1Reject ==
    /\ pc = "phase1"
    /\ AnyRejected(hz, extPc)
    /\ pc' = "rejected"
    /\ UNCHANGED <<median, out, hz, ver, btcSrc, lumenSrc, btcPrice, xlmPrice, extPc,
                   cmc, meta, dirReq, directory, assets, pairs, tasks,
                   lumenVolumeXLM, lumenVolumeUSD>>

\* Promise.all of phase1 resolves; loadAssets starts: the native asset is
\* pushed and the directory is asked for the issuers
Phase1Then ==
    /\ pc = "phase1"
    /\ AllResolved(hz, ver, extPc)
    /\ pc' = "phase2"
    /\ assets' = <<NativeAsset(meta.externalPrices.USD_XLM)>>
    /\ directory' = 0
    /\ dirReq' = "inflight"
    /\ UNCHANGED <<median, out, hz, ver, btcSrc, lumenSrc, btcPrice, xlmPrice, extPc,
                   cmc, meta, pairs, tasks, lumenVolumeXLM, lumenVolumeUSD>>

-----------------------------------------------------------------------------
(* Phase 2 *)

\* directory.initializeIssuerOrgs settles; on success the callback of
\* loadAssets pushes the assets of the directory
DirectoryRespond(kind, d) ==
    /\ dirReq = "inflight"
    /\ IF kind = "ok"
       THEN /\ dirReq' = "ok"
            /\ directory' = d
            /\ meta' = [meta EXCEPT !.build_id = Num(d)]
            /\ assets' = assets \o DirectoryAssets
            /\ pc' = "phase3"
       ELSE /\ dirReq' = "rejected"
            /\ pc' = "rejected"
            /\ UNCHANGED <<directory, meta, assets>>
    /\ UNCHANGED <<median, out, hz, ver, btcSrc, lumenSrc, btcPrice, xlmPrice, extPc,
                   cmc, pairs, tasks, lumenVolumeXLM, lumenVolumeUSD>>

-----------------------------------------------------------------------------
(* Phase 3 *)

\* the synchronous part of phase3: the pairs are copied, every pair with a
\* native leg names itself the top pair of its asset, and the order book of
\* every pair is requested
Phase3Start ==
    /\ pc = "phase3"
    /\ pc' = "phase3wait"
    /\ pairs' = Directories[directory]
    /\ lumenVolumeXLM' = Num(0)
    /\ lumenVolumeUSD' = Num(0)
    /\ assets' = WithTopTradePairs(assets, Directories[directory])
    /\ tasks' = [i \in 1..Len(Directories[directory]) |->
                    [st |-> "orderbook", numBids |-> 0, numAsks |-> 0]]
    /\ UNCHANGED <<median, out, hz, ver, btcSrc, lumenSrc, btcPrice, xlmPrice, extPc,
                   cmc, meta, dirReq, directory>>

\* Server.orderbook(...).call() of pair i settles
OrderbookRespond(i, kind, res) ==
    /\ i \in DOMAIN tasks
    /\ tasks[i].st = "orderbook"
    /\ IF kind # "ok"
       THEN /\ tasks' = [tasks EXCEPT ![i].st = "failed"]
            /\ UNCHANGED pairs
       ELSE IF EmptySide(res)
       THEN /\ tasks' = [tasks EXCEPT ![i].st = "done"]
            /\ UNCHANGED pairs
       ELSE IF res.bids = <<>> \/ res.asks = <<>>
       \* res.bids[0].price or res.asks[0].price of an empty side throws, and
       \* the catch of the task rejects
       THEN /\ tasks' = [tasks EXCEPT ![i].st = "failed"]
            /\ UNCHANGED pairs
       ELSE /\ tasks' = [tasks EXCEPT ![i] =
                            [st |-> "trades", numBids |-> Len(res.bids),
                             numAsks |-> Len(res.asks)]]
            /\ pairs' = [pairs EXCEPT ![i] = PairWithBook(pairs[i], res)]
    /\ UNCHANGED <<median, pc, out, hz, ver, btcSrc, lumenSrc, btcPrice, xlmPrice,
                   extPc, cmc, meta, dirReq, directory, assets,
                   lumenVolumeXLM, lumenVolumeUSD>>

\* Server.tradeAggregation(...).call() of pair i settles
TradesRespond(i, kind, records) ==
    /\ i \in DOMAIN tasks
    /\ tasks[i].st = "trades"
    /\ IF kind # "ok"
       THEN /\ tasks' = [tasks EXCEPT ![i].st = "failed"]
            /\ UNCHANGED <<pairs, assets, lumenVolumeXLM, lumenVolumeUSD>>
       ELSE /\ tasks' = [tasks EXCEPT ![i] =
                            [st |-> "done", numBids |-> 0, numAsks |-> 0]]
            /\ LET k == AssetOf(assets, pairs[i])
                   pair == PairWithTrades(pairs[i], records)
                   asset == AssetWithTrades(assets[k], pair, records,
                                tasks[i].numBids, tasks[i].numAsks,
                                meta.externalPrices)
               IN  IF k = 0
                   THEN UNCHANGED <<pairs, assets, lumenVolumeXLM, lumenVolumeUSD>>
                   ELSE /\ pairs' = [pairs EXCEPT ![i] = pair]
                        /\ assets' = [assets EXCEPT ![k] = asset]
                        /\ lumenVolumeXLM' = Plus(lumenVolumeXLM, pair.volume24h_XLM)
                        /\ lumenVolumeUSD' = Plus(lumenVolumeUSD, asset.volume24h_USD)
    /\ median' = IF kind = "ok" /\ AssetOf(assets, pairs[i]) # 0
                        /\ EnoughHistory(records)
                 THEN MedianCall(OldestCloses(records)[1],
                                 OldestCloses(records)[2],
                                 OldestCloses(records)[3])
                 ELSE median
    /\ UNCHANGED <<pc, out, hz, ver, btcSrc, lumenSrc, btcPrice, xlmPrice,
                   extPc, cmc, meta, dirReq, directory>>

\* Promise.all of phase3 resolves: the volumes of the native asset are set
Phase3Then ==
    /\ pc = "phase3wait"
    /\ AllTasksDone(tasks)
    /\ pc' = "phase4"
    /\ assets' = [assets EXCEPT ![1].volume24h_XLM = niceRound(lumenVolumeXLM),
                                ![1].volume24h_USD = niceRound(lumenVolumeUSD)]
    /\ UNCHANGED <<median, out, hz, ver, btcSrc, lumenSrc, btcPrice, xlmPrice, extPc,
                   cmc, meta, dirReq, directory, pairs, tasks,
                   lumenVolumeXLM, lumenVolumeUSD>>

\* Promise.all of phase3 rejects with the first task that does
Phase3Reject ==
    /\ pc = "phase3wait"
    /\ SomeTaskFailed(tasks)
    /\ pc' = "rejected"
    /\ UNCHANGED <<median, out, hz, ver, btcSrc, lumenSrc, btcPrice, xlmPrice, extPc,
                   cmc, meta, dirReq, directory, assets, pairs, tasks,
                   lumenVolumeXLM, lumenVolumeUSD>>

-----------------------------------------------------------------------------
(* Phase 4 and the result *)

Phase4Run ==
    /\ pc = "phase4"
    /\ pc' = "stringify"
    /\ assets' = phase4(assets)
    /\ UNCHANGED <<median, out, hz, ver, btcSrc, lumenSrc, btcPrice, xlmPrice, extPc,
                   cmc, meta, dirReq, directory, pairs, tasks,
                   lumenVolumeXLM, lumenVolumeUSD>>

\* JSON.stringify(ticker), and tickerGenerator: .then(ticker => ...), the
\* ticker document and the succeeded status record
Succeed ==
    /\ pc = "stringify"
    /\ pc' = "done"
    /\ out' = [state |-> "resolved",
               files |-> {"v1/ticker.json", "v1/ticker-state.json"},
               tickerState |-> "Ticker successfully generated"]
    /\ UNCHANGED <<median, hz, ver, btcSrc, lumenSrc, btcPrice, xlmPrice, extPc, cmc,
                   meta, dirReq, directory, assets, pairs, tasks,
                   lumenVolumeXLM, lumenVolumeUSD>>

Next ==
    \/ \E kind \in {"ok", "reqerr", "badjson"} : HorizonRespond(kind)
    \/ \E kind \in {"ok", "nomatch", "reqerr"} : VersionRespond(kind)
    \/ \E i \in 1..NumBtcSources, kind \in SourceKinds : BtcSourceRespond(i, kind)
    \/ \E i \in 1..NumLumenSources, kind \in SourceKinds :
            LumenSourceRespond(i, kind)
    \/ GetBtcPriceThen
    \/ GetLumenPriceThen
    \/ ExternalPricesThen
    \/ \E kind \in CmcKinds, pct \in CmcPct : CmcRespond(kind, pct)
    \/ CmcTimerFire
    \/ CmcThen
    \/ Phase1Reject
    \/ Phase1Then
    \/ \E kind \in {"ok", "reqerr"}, d \in 1..Len(Directories) :
            DirectoryRespond(kind, d)
    \/ Phase3Start
    \/ \E i \in DOMAIN tasks, kind \in {"ok", "reqerr"}, res \in OrderBooks :
            OrderbookRespond(i, kind, res)
    \/ \E i \in DOMAIN tasks, kind \in {"ok", "reqerr"}, records \in TradeWindows :
            TradesRespond(i, kind, records)
    \/ Phase3Then
    \/ Phase3Reject
    \/ Phase4Run
    \/ Succeed
    \/ Catch

Spec == Init /\ [][Next]_vars

-----------------------------------------------------------------------------
(* medianOf3 on its own: the arguments are drawn, the function is applied *)

\* closes of unit 1e-2 whose strings have one to three digits before the
\* point: 0.05, 9, 9.5, 10, 11, 100
MedianValues == {5, 900, 950, 1000, 1100, 10000}

MedianInit ==
    /\ InitTicker
    /\ median \in { [args |-> <<a, b, c>>, result |-> undefined] :
                        a \in MedianValues, b \in MedianValues, c \in MedianValues }

MedianApply ==
    /\ median.result = undefined
    /\ median' = MedianCall(median.args[1], median.args[2], median.args[3])
    /\ UNCHANGED <<pc, out, hz, ver, btcSrc, lumenSrc, btcPrice, xlmPrice, extPc,
                   cmc, meta, dirReq, directory, assets, pairs, tasks,
                   lumenVolumeXLM, lumenVolumeUSD>>

MedianNext == MedianApply

MedianSpec == MedianInit /\ [][MedianNext]_vars

-----------------------------------------------------------------------------
(* The claims *)

Phase4Ran == pc \in {"stringify", "done"}
RunFailed == out.state = "resolved" /\ out.tickerState = "Ticker generation failed"
CmcFailed == cmc.resp \in {"reqerr", "nodata"}

\* C1: when every answer of the quote API lacks the XLM entry, 11 requests
\* are issued in all, each retry after the answer to the request before it
\* and after one timer, and the 11th answer is handed to Phase 1: the chain
\* resolves with it and sets no further timer.
C1_RetryBound ==
    /\ cmc.requests <= 11
    /\ cmc.st = "inflight" =>
            cmc.delays = cmc.requests - 1 /\ cmc.retryCount = cmc.requests - 1
    /\ cmc.st = "timer" =>
            cmc.resp = "missing" /\ cmc.delays = cmc.requests /\ cmc.requests <= 10
    /\ (cmc.st = "resolved" /\ cmc.resp = "missing") =>
            cmc.requests = 11 /\ cmc.delays = 10 /\ cmc.retryCount = 10

\* the chain has resolved with an answer that lacks the XLM entry
C1_Witness == cmc.st = "resolved" /\ cmc.resp = "missing" /\ cmc.requests = 11

\* C2: a quote request that is rejected, or answered without a usable body,
\* does not fail the run: the price chain of Phase 1 is never rejected, the
\* promise Phase 1 waits for is settled, and the run is rejected only for
\* another reason.
C2_ChangeApiFailsOpen ==
    CmcFailed =>
        /\ extPc # "rejected"
        /\ cmc.st # "hung"
        /\ (pc = "rejected" =>
                hz = "rejected" \/ dirReq = "rejected" \/ SomeTaskFailed(tasks))

\* the quote of source i of a group, as the source resolves with it
BtcQuoteOf(i) == Num(RoundDiv(BtcQuote[i], 10))
LumenQuoteOf(i) == Num(LumenQuote[i])

\* the sources of a group that resolved with their quote
RECURSIVE QuotesIn(_, _, _)
QuotesIn(srcs, quotes, i) ==
    IF i > Len(srcs) THEN <<>>
    ELSE (IF srcs[i] = Num(quotes[i]) THEN <<quotes[i]>> ELSE <<>>)
            \o QuotesIn(srcs, quotes, i + 1)

BtcQuotesIn == QuotesIn(btcSrc, [i \in 1..NumBtcSources |-> BtcQuoteOf(i).v], 1)
LumenQuotesIn == QuotesIn(lumenSrc, LumenQuote, 1)

\* C3: a source that fails resolves to null (a settled source holds null or
\* its quote), and when a group is reconciled with a source that answered,
\* the value is a number between the least and the greatest quote of the
\* sources that answered: the failed sources have no part in it. No source
\* rejects the price chain.
C3_SourceFailureIsolated ==
    [][ /\ \A i \in DOMAIN btcSrc' : btcSrc'[i] \in {Pending, null, BtcQuoteOf(i)}
        /\ \A i \in DOMAIN lumenSrc' :
                lumenSrc'[i] \in {Pending, null, LumenQuoteOf(i)}
        /\ (btcPrice = Pending /\ btcPrice' # Pending /\ BtcQuotesIn # <<>>) =>
                /\ IsNum(btcPrice')
                /\ \E i \in 1..Len(BtcQuotesIn) : BtcQuotesIn[i] <= btcPrice'.v + 5
                /\ \E i \in 1..Len(BtcQuotesIn) : BtcQuotesIn[i] >= btcPrice'.v - 5
        /\ (xlmPrice = Pending /\ xlmPrice' # Pending /\ LumenQuotesIn # <<>>) =>
                /\ IsNum(xlmPrice')
                /\ \E i \in 1..Len(LumenQuotesIn) : LumenQuotesIn[i] <= xlmPrice'.v
                /\ \E i \in 1..Len(LumenQuotesIn) : LumenQuotesIn[i] >= xlmPrice'.v
        /\ (extPc' = "rejected" => cmc'.st = "rejected")
      ]_vars

AllNull(srcs) == srcs # <<>> /\ \A i \in 1..Len(srcs) : srcs[i] = null

\* C4: when every source of a group has failed, the reconciled value of the
\* group is neither NaN nor 0.
C4_EmptyGroupIsFailure ==
    [][ /\ (btcPrice = Pending /\ btcPrice' # Pending /\ AllNull(btcSrc)) =>
                btcPrice' \notin {NaN, Num(0)}
        /\ (xlmPrice = Pending /\ xlmPrice' # Pending /\ AllNull(lumenSrc)) =>
                xlmPrice' \notin {NaN, Num(0)}
      ]_vars

\* C5: the promise of tickerGenerator resolves with one status record: once
\* nothing is left to happen it has resolved; it holds the ticker document
\* exactly when the four phases have completed, and after a failure the
\* failed status record alone.
C5_AlwaysOneStatusRecord ==
    /\ ~(ENABLED Next) => out.state = "resolved"
    /\ out.state = "resolved" =>
            /\ "v1/ticker-state.json" \in out.files
            /\ ("v1/ticker.json" \in out.files) <=> (pc = "done")
            /\ pc = "rejected" =>
                    out.files = {"v1/ticker-state.json"} /\ RunFailed
            /\ pc \in {"done", "rejected"}

\* C6: no step of Phase 2 has started before every fetch of Phase 1 has
\* finished, the retry chain included; no task of Phase 3 exists before
\* Phase 2 has pushed the assets of the directory; Phase 4 has run only when
\* every task of Phase 3 has completed.
C6_PhasesSequential ==
    /\ (dirReq # "idle" \/ assets # <<>>) =>
            /\ hz = "ok" /\ ver = "done"
            /\ btcSrc = <<>> /\ lumenSrc = <<>>
            /\ btcPrice # Pending /\ xlmPrice # Pending
            /\ extPc = "done" /\ cmc.st = "done"
    /\ (tasks # <<>> \/ pairs # <<>>) =>
            /\ dirReq = "ok"
            /\ Len(assets) = 1 + Len(DirectoryAssets)
    /\ (Phase4Ran \/ pc = "phase4"
            \/ \E k \in 1..Len(assets) : assets[k].activityScore # undefined) =>
            /\ tasks # <<>>
            /\ AllTasksDone(tasks)

\* the four phases have run
C6_Witness ==
    /\ pc = "done"
    /\ Len(tasks) = 2
    /\ \A k \in 1..Len(assets) : assets[k].activityScore # undefined

\* C7: once the order-book or the trade-aggregation request of a pair has
\* failed, Phase 4 is not executed, whatever the other pairs answer: no asset
\* is scored, no ticker document is produced, and when nothing is left to
\* happen the run has ended as failed.
C7_PairFailureFailsRun ==
    SomeTaskFailed(tasks) =>
        /\ pc \in {"phase3wait", "rejected"}
        /\ \A k \in 1..Len(assets) : assets[k].activityScore = undefined
        /\ "v1/ticker.json" \notin out.files
        /\ out.state = "resolved" => RunFailed
        /\ ~(ENABLED Next) => RunFailed

\* one pair has failed, the other has completed, the run has ended as failed
C7_Witness ==
    /\ Len(tasks) = 2
    /\ tasks[1].st = "done" /\ pairs[1].numTrades24h # undefined
    /\ tasks[2].st = "failed"
    /\ RunFailed

\* C8: after Phase 4 the native asset has the score 100 and is the first
\* element of ticker.assets.
C8_NativeFirst ==
    Phase4Ran =>
        /\ assets[1].id = "XLM-native"
        /\ \A k \in 1..Len(assets) :
                assets[k].id = "XLM-native" => assets[k].activityScore = Num(1000000)

\* the place of an asset in the enumeration of Phase 2
Enumerated(id) ==
    CHOOSE k \in 1..4 : <<"XLM-native", "A-a.org", "B-b.org", "C-c.org">>[k] = id

\* C9: after Phase 4 every asset but the last has a score greater than or
\* equal to the score of the next, and of two neighbours whose scores were
\* exactly equal when they were sorted the one enumerated first comes first.
C9_SortedDescending ==
    Phase4Ran =>
        \A k \in 1..(Len(assets) - 1) :
            /\ IsNum(assets[k].activityScore)
            /\ IsNum(assets[k + 1].activityScore)
            /\ assets[k].activityScore.v >= assets[k + 1].activityScore.v
            /\ ActivityScore(assets[k]) = ActivityScore(assets[k + 1]) =>
                    Enumerated(assets[k].id) < Enumerated(assets[k + 1].id)

\* C10: after Phase 4 every asset other than the native one that has no
\* price has the score 0.
C10_UnpricedScoresZero ==
    Phase4Ran =>
        \A k \in 1..Len(assets) :
            (assets[k].id # "XLM-native" /\ assets[k].price_XLM = undefined) =>
                assets[k].activityScore = Num(0)

\* Phase 4 has scored an asset whose pair had an empty side and an asset
\* that has no pair, next to an asset with a price
C10_Witness ==
    /\ Phase4Ran
    /\ \E k \in 1..Len(assets) :
            /\ assets[k].topTradePairSlug # "undefined"
            /\ assets[k].price_XLM = undefined
            /\ assets[k].activityScore = Num(0)
    /\ \E k \in 1..Len(assets) :
            /\ assets[k].id = "C-c.org"
            /\ assets[k].topTradePairSlug = "undefined"
            /\ assets[k].activityScore = Num(0)
    /\ \E k \in 1..Len(assets) :
            /\ assets[k].id # "XLM-native"
            /\ assets[k].price_XLM # undefined

\* the numbers among the results of the sources of a group
RECURSIVE NumbersIn(_)
NumbersIn(srcs) ==
    IF srcs = <<>> THEN <<>>
    ELSE (IF IsNum(Head(srcs)) THEN <<Head(srcs).v>> ELSE <<>>)
            \o NumbersIn(Tail(srcs))

\* every source of the group resolved to a number or to null, one at least
\* to a number
NumbersAndNulls(srcs) ==
    /\ NumbersIn(srcs) # <<>>
    /\ \A i \in 1..Len(srcs) : IsNum(srcs[i]) \/ srcs[i] = null

Abs(x) == IF x < 0 THEN -x ELSE x

\* value is the mean of nums to the nearest multiple of unit
IsMeanOf(value, nums, unit) ==
    /\ IsNum(value)
    /\ value.v % unit = 0
    /\ 2 * Abs(Len(nums) * value.v - SumSeq(nums)) <= Len(nums) * unit

\* C11: the reconciled value of a group is the mean of the results that are
\* not null, rounded as the group is (USD_BTC to 0.01, BTC_XLM to 1e-8): a
\* null result adds nothing to the sum and nothing to the count.
C11_MeanExcludesNulls ==
    [][ /\ (btcPrice = Pending /\ btcPrice' # Pending /\ NumbersAndNulls(btcSrc)) =>
                IsMeanOf(btcPrice', NumbersIn(btcSrc), 10)
        /\ (xlmPrice = Pending /\ xlmPrice' # Pending /\ NumbersAndNulls(lumenSrc)) =>
                IsMeanOf(xlmPrice', NumbersIn(lumenSrc), 1)
      ]_vars

\* USD_BTC reconciled from the fourth source alone, the other three null, and
\* BTC_XLM from sources of which one at least was null
C11_Witness == btcPrice = Num(20010) /\ xlmPrice = Num(10001)

\* the trade-aggregation callback of a pair of this asset has run
HasTrades(asset) == asset.id # "XLM-native" /\ IsNum(asset.numTradeRecords24h)

\* C12: an asset whose native-leg pair had both sides of its order book has
\* change24h_XLM and change24h_USD null when the trade-aggregation window
\* held fewer than 7 buckets, and both computed, not null, when it held 7
\* or more.
C12_ChangeNeedsSevenBuckets ==
    \A k \in 1..Len(assets) :
        HasTrades(assets[k]) =>
            IF assets[k].numTradeRecords24h.v < 7
            THEN assets[k].change24h_XLM = null /\ assets[k].change24h_USD = null
            ELSE /\ IsNum(assets[k].change24h_XLM)
                 /\ assets[k].change24h_USD \notin {null, undefined}

\* one asset with a window of 6 buckets and no change, another with a
\* window of 7 or more and both changes numbers
C12_Witness ==
    /\ \E k \in 1..Len(assets) :
            /\ HasTrades(assets[k])
            /\ assets[k].numTradeRecords24h = Num(6)
            /\ assets[k].change24h_XLM = null
    /\ \E k \in 1..Len(assets) :
            /\ HasTrades(assets[k])
            /\ assets[k].numTradeRecords24h.v >= 7
            /\ IsNum(assets[k].change24h_XLM)
            /\ IsNum(assets[k].change24h_USD)

\* the order books with both sides whose best bid and best ask are the
\* pair's: the books the order-book callback of the pair can have seen
BooksOf(pair) ==
    { res \in OrderBooks :
        /\ res.bids # <<>> /\ res.asks # <<>>
        /\ Head(res.bids).price = pair.bid.v
        /\ Head(res.asks).price = pair.ask.v }

\* the sums of the amounts within 10% of the pair's price, rounded
BidBand(pair, res) == RoundDiv(SumBidBand(res.bids, pair.price.v), 10)
AskBand(pair, res) == RoundDiv(SumAskBand(res.asks, pair.price.v), 10)

\* C13: the depth10Amount of a pair whose order book has both sides is the
\* lesser of the rounded bid-band sum and the rounded ask-band sum of its
\* book, and it is above neither band sum of any book that differs from it
\* in the amounts only: more on one side never lifts it above the other.
C13_DepthIsMinOfBands ==
    \A i \in 1..Len(pairs) :
        IsNum(pairs[i].depth10Amount) =>
            /\ \E res \in BooksOf(pairs[i]) :
                    pairs[i].depth10Amount.v =
                        IF BidBand(pairs[i], res) <= AskBand(pairs[i], res)
                        THEN BidBand(pairs[i], res) ELSE AskBand(pairs[i], res)
            /\ \A res \in BooksOf(pairs[i]) :
                    /\ pairs[i].depth10Amount.v <= BidBand(pairs[i], res)
                    /\ pairs[i].depth10Amount.v <= AskBand(pairs[i], res)

\* a pair whose depth is its ask-band sum, 800, though a book of its prices
\* holds more than ten times that in bids
C13_Witness ==
    \E i \in 1..Len(pairs) :
        /\ pairs[i].depth10Amount = Num(800)
        /\ \E res \in BooksOf(pairs[i]) :
                BidBand(pairs[i], res) > 10 * AskBand(pairs[i], res)

\* the six orders of three arguments
Permutations3(s) ==
    { <<s[1], s[2], s[3]>>, <<s[1], s[3], s[2]>>, <<s[2], s[1], s[3]>>,
      <<s[2], s[3], s[1]>>, <<s[3], s[1], s[2]>>, <<s[3], s[2], s[1]>> }

\* C14: the result of medianOf3 is the result of medianOf3 for every other
\* order of the same three arguments.
C14_MedianOrderIndependent ==
    IsNum(median.result) =>
        \A p \in Permutations3(median.args) :
            medianOf3(p[1], p[2], p[3]) = median.result.v

\* medianOf3 has been applied to three different values given neither in
\* ascending nor in descending order
C14_Witness ==
    /\ IsNum(median.result)
    /\ median.args[2] < median.args[3]
    /\ median.args[3] < median.args[1]

\* how many of the three arguments are at most m, and at least m
AtMost(s, m) == Cardinality({i \in 1..3 : s[i] <= m})
AtLeast(s, m) == Cardinality({i \in 1..3 : s[i] >= m})

\* C17: the "open" of the 24h change, the result of medianOf3 on the closes
\* of the three oldest buckets, is one of the three closes, with two of
\* them at most it and two of them at least it: the numeric median.
C17_OpenIsNumericMedian ==
    IsNum(median.result) =>
        /\ \E i \in 1..3 : median.args[i] = median.result.v
        /\ AtMost(median.args, median.result.v) >= 2
        /\ AtLeast(median.args, median.result.v) >= 2

\* the assets Phase 4 scored by the formula: not the native one, and priced
Scored(asset) == asset.id # "XLM-native" /\ IsNum(asset.spread)

\* C15: for every asset Phase 4 scores by the formula the spread penalty is
\* between 0 and 1, and of two such assets the one with the greater spread
\* has the lesser or the same penalty; the penalty of spread 0 is 1 and the
\* penalty of spread 1 is 0.
C15_SpreadPenaltyInUnitRange ==
    /\ SpreadPenalty(0) = 10000
    /\ SpreadPenalty(10000) = 0
    /\ Phase4Ran =>
            \A k \in 1..Len(assets) :
                Scored(assets[k]) =>
                    /\ SpreadPenalty(assets[k].spread.v) >= 0
                    /\ SpreadPenalty(assets[k].spread.v) <= 10000
                    /\ \A j \in 1..Len(assets) :
                            (Scored(assets[j])
                                /\ assets[j].spread.v <= assets[k].spread.v) =>
                                    SpreadPenalty(assets[j].spread.v)
                                        >= SpreadPenalty(assets[k].spread.v)

\* the retry chain ended with an answer that lacks the XLM entry, and the
\* last callback of the price chain has run
EndedMissing == cmc.st = "done" /\ cmc.resp = "missing"

\* C16: when the last answer after the retries lacks the XLM entry the price
\* chain of Phase 1 completes: USD_XLM_24hAgo is USD_XLM, USD_XLM_change is
\* not set, Phase 2 starts once the other branches of Phase 1 have resolved,
\* and the run is rejected only for another reason.
C16_MissingQuoteIsNotFatal ==
    EndedMissing =>
        /\ extPc = "done"
        /\ meta.externalPrices.USD_XLM_24hAgo = meta.externalPrices.USD_XLM
        /\ meta.externalPrices.USD_XLM_change = undefined
        /\ (pc = "phase1" /\ hz = "ok" /\ ver = "done") => ENABLED Phase1Then
        /\ pc = "rejected" =>
                hz = "rejected" \/ dirReq = "rejected" \/ SomeTaskFailed(tasks)

\* the run has completed after a retry chain that ended without the XLM entry
C16_Witness ==
    /\ EndedMissing
    /\ pc = "done"
    /\ IsNum(meta.externalPrices.USD_XLM)

\* C18: once a per-pair task has failed and the failed status record has been
\* produced, no task of Phase 3 takes a further step (none issues the
\* trade-aggregation request, none settles) and ticker.pairs, ticker.assets
\* and the accumulated volumes are left as they are.
C18_FailureAbortsOtherTasks ==
    [][ (SomeTaskFailed(tasks) /\ RunFailed) =>
            /\ tasks' = tasks
            /\ pairs' = pairs
            /\ assets' = assets
            /\ lumenVolumeXLM' = lumenVolumeXLM
            /\ lumenVolumeUSD' = lumenVolumeUSD
      ]_vars

\* the sum of volume24h_XLM over the pairs whose trade-aggregation callback
\* has set it
RECURSIVE SumVolumeXLM(_)
SumVolumeXLM(ps) ==
    IF ps = <<>> THEN Num(0)
    ELSE Plus(SumVolumeXLM(SubSeq(ps, 1, Len(ps) - 1)),
              IF IsNum(ps[Len(ps)].volume24h_XLM) THEN ps[Len(ps)].volume24h_XLM
              ELSE Num(0))

\* the sum over the same pairs of the volume in USD, as the callback of each
\* pair computes it for the asset
RECURSIVE SumVolumeUSD(_, _)
SumVolumeUSD(ps, usdXlm) ==
    IF ps = <<>> THEN Num(0)
    ELSE Plus(SumVolumeUSD(SubSeq(ps, 1, Len(ps) - 1), usdXlm),
              IF IsNum(ps[Len(ps)].volume24h_XLM)
              THEN niceRound(TimesUsd(ps[Len(ps)].volume24h_XLM.v, usdXlm, 1))
              ELSE Num(0))

Phase3Succeeded == pc \in {"phase4", "stringify", "done"}

Phase2Started == dirReq # "idle"

\* C20: from the start of Phase 2 on no step changes a field of
\* ticker._meta.externalPrices.
C20_ExternalPricesFrozen ==
    [][ Phase2Started => meta'.externalPrices = meta.externalPrices ]_vars

\* a run has completed in which the quote API set USD_XLM_change and a
\* per-pair task priced an asset in USD
C20_Witness ==
    /\ pc = "done"
    /\ IsNum(meta.externalPrices.USD_XLM_change)
    /\ \E k \in 1..Len(assets) :
            assets[k].id # "XLM-native" /\ IsNum(assets[k].price_USD)

\* the mean of nums to the nearest multiple of unit, halves up
RoundedMean(nums, unit) == Num(RoundDiv(SumSeq(nums), Len(nums) * unit) * unit)

\* C21 as the spec states it: USD_BTC is the mean of the results that are not
\* null rounded to 3 decimal places (unit 1e-3), BTC_XLM the mean rounded
\* to 8 decimal places (unit 1e-8).
C21_RoundedTo3And8 ==
    [][ /\ (btcPrice = Pending /\ btcPrice' # Pending /\ NumbersAndNulls(btcSrc)) =>
                btcPrice' = RoundedMean(NumbersIn(btcSrc), 1)
        /\ (xlmPrice = Pending /\ xlmPrice' # Pending /\ NumbersAndNulls(lumenSrc)) =>
                xlmPrice' = RoundedMean(NumbersIn(lumenSrc), 1)
      ]_vars

\* C21 amended: USD_BTC is the mean of the results that are not null rounded
\* to 2 decimal places (10 units of 1e-3), BTC_XLM the mean rounded to 8
\* decimal places.
C21_RoundedTo2And8 ==
    [][ /\ (btcPrice = Pending /\ btcPrice' # Pending /\ NumbersAndNulls(btcSrc)) =>
                btcPrice' = RoundedMean(NumbersIn(btcSrc), 10)
        /\ (xlmPrice = Pending /\ xlmPrice' # Pending /\ NumbersAndNulls(lumenSrc)) =>
                xlmPrice' = RoundedMean(NumbersIn(lumenSrc), 1)
      ]_vars

\* USD_BTC is 20.01, reconciled from the one result 20.005, and BTC_XLM has
\* been reconciled to a number
C21_Witness == btcPrice = Num(20010) /\ IsNum(xlmPrice) /\ extPc = "done"

\* an order book with no bids or no asks
OneSided(res) == res.bids = <<>> \/ res.asks = <<>>

\* task i has returned from its order-book callback at the test for an empty
\* side: the pair has every field of the two callbacks unset
ReturnedEmpty(i) ==
    /\ tasks[i].st = "done"
    /\ \A f \in {"bid", "ask", "spread", "price", "depth10Amount",
                  "volume24h_XLM", "numTrades24h"} : pairs[i][f] = undefined

\* C22: when the order-book snapshot of a pair has no bids or no asks, the
\* step of the task that receives it ends the task without error, with no
\* trade-aggregation request pending, and changes no field of any pair or of
\* any asset, nor the volume sums; the task then stays done, so that it never
\* makes Phase 3 reject.
C22_EmptyBookStopsQuietly ==
    [][ \A i \in DOMAIN tasks :
          /\ \A res \in {b \in OrderBooks : OneSided(b)} :
                OrderbookRespond(i, "ok", res) =>
                    /\ tasks'[i].st = "done"
                    /\ pairs' = pairs
                    /\ assets' = assets
                    /\ lumenVolumeXLM' = lumenVolumeXLM
                    /\ lumenVolumeUSD' = lumenVolumeUSD
                    /\ pc' = pc
          /\ (ReturnedEmpty(i) /\ i \in DOMAIN tasks') =>
                tasks'[i].st = "done" /\ pairs'[i] = pairs[i]
      ]_vars

\* the run has succeeded with a pair whose order book had an empty side, and
\* the asset of that pair has no price
C22_Witness ==
    /\ pc = "done"
    /\ \E i \in DOMAIN tasks :
          /\ ReturnedEmpty(i)
          /\ AssetOf(assets, pairs[i]) # 0
          /\ assets[AssetOf(assets, pairs[i])].price_XLM = undefined

\* the pairs of asset k whose trade-aggregation callback has run
TradedPairsOf(k) ==
    {i \in DOMAIN pairs : AssetOf(assets, pairs[i]) = k /\ IsNum(pairs[i].numTrades24h)}

\* the ticker document has been written
DocumentWritten == pc = "done" /\ out.tickerState = "Ticker successfully generated"

\* C23: the final ticker document is the same for every completion order of
\* the per-pair tasks of Phase 3. The pairs keep what their own answers gave,
\* so the document is the same for every order exactly when it is the one
\* that completion in the order of the directory gives: every asset then
\* carries the slug, spread, volume and number of trades of the last of its
\* pairs in the directory that had trades.
C23_CompletionOrderIrrelevant ==
    DocumentWritten =>
        \A k \in 1..Len(assets) :
            TradedPairsOf(k) # {} =>
                LET last == CHOOSE i \in TradedPairsOf(k) :
                                \A j \in TradedPairsOf(k) : j <= i
                IN  /\ assets[k].topTradePairSlug = pairs[last].slug
                    /\ assets[k].spread = pairs[last].spread
                    /\ assets[k].volume24h_XLM = pairs[last].volume24h_XLM
                    /\ assets[k].numTrades24h = pairs[last].numTrades24h

====
